---- MODULE Spec2Model ----
(***************************************************************************)
(* Order/item reconciliation pipeline of main/M01_combine_sql.py:          *)
(* connect, order-level query, staging of the order ids in chunks,         *)
(* item-level query, VAT pivot + merge + duplicate suppression, close,     *)
(* provider subsets and the CSV export loop.                               *)
(***************************************************************************)
EXTENDS Integers, Sequences, FiniteSets, TLC

(***************************************************************************)
(* Bounds of the model.                                                     *)
(***************************************************************************)
\* rows of the order table when the identifiers are what varies
MaxStaged == 3
\* largest chunk_size tried (the code sets 25000, src/main/M01_combine_sql.py:112)
MaxChunk == 2
\* payment transactions per order when the item table is what varies
MaxTx == 2
\* rows of the warehouse item table when it is what varies
MaxItems == 3
\* rows of the order table when the vendor classification is what varies
MaxRouted == 1

(***************************************************************************)
(* Values.  NULL is a missing string (None/NaN in an object column), NaN a *)
(* missing number; a present number n is the tuple <<n>>.                   *)
(***************************************************************************)
NULL == "<null>"
NaN == << >>
Num(n) == << n >>
notna(v) == v # NaN /\ v # NULL

Range(s) == { s[k] : k \in 1..Len(s) }
Min2(a, b) == IF a <= b THEN a ELSE b

IdSeq == << "A", "B", "C" >>
OrderIds == Range(IdSeq)

\* VAT-band display labels the item query can return: the four labels the
\* code recognises and one it does not.
LabelSeq == << "0% VAT Band", "5% VAT Band", "20% VAT Band",
               "Other / Unknown VAT Band", "Other/Unknown VAT Band" >>
Labels == Range(LabelSeq)

Metrics == { "item_quantity_count", "total_price_inc_vat", "total_price_exc_vat" }

(***************************************************************************)
(* processes/P04_static_lists.py                                            *)
(***************************************************************************)
OrderLevelColumns ==
  << "gp_order_id", "gp_order_id_obfuscated", "mp_order_id",
     "payment_system", "braintree_tx_index", "braintree_tx_id",
     "location_name", "order_vendor", "vendor_group",
     "order_completed", "created_at_timestamp", "delivered_at_timestamp",
     "created_at_day", "created_at_week", "created_at_month",
     "delivered_at_day", "delivered_at_week", "delivered_at_month",
     "ops_date_day", "ops_date_week", "ops_date_month",
     "blended_vat_rate", "post_promo_sales_inc_vat",
     "delivery_fee_inc_vat", "priority_fee_inc_vat",
     "small_order_fee_inc_vat", "mp_bag_fee_inc_vat",
     "total_payment_inc_vat", "tips_amount",
     "total_payment_with_tips_inc_vat",
     "post_promo_sales_exc_vat", "delivery_fee_exc_vat",
     "priority_fee_exc_vat", "small_order_fee_exc_vat",
     "mp_bag_fee_exc_vat", "total_revenue_exc_vat",
     "cost_of_goods_inc_vat", "cost_of_goods_exc_vat",
     "alt_post_promo_sales_inc_vat", "alt_delivery_fee_exc_vat",
     "alt_priority_fee_exc_vat", "alt_small_order_fee_exc_vat",
     "alt_total_payment_with_tips_inc_vat" >>

ItemLevelColumns ==
  << "total_products",
     "item_quantity_count_0", "item_quantity_count_5", "item_quantity_count_20",
     "total_price_exc_vat_0", "total_price_exc_vat_5", "total_price_exc_vat_20",
     "total_price_inc_vat_0", "total_price_inc_vat_5", "total_price_inc_vat_20" >>

FINAL_DF_ORDER == OrderLevelColumns \o ItemLevelColumns

(***************************************************************************)
(* State.                                                                   *)
(***************************************************************************)
VARIABLES
  dwh_orders,      \* warehouse: the rows the order-level query selects
  dwh_items,       \* warehouse: the item rows of the period
  chunk_size,      \* run_item_level_query: chunk_size
  pc,              \* position of main()
  conn,            \* "none" | "open" | "closed"
  error,           \* kind of the exception that left main(), or "none"
  failed_at,       \* value of pc when the exception was raised, or "none"
  df_orders,       \* result of run_order_level_query
  gp_order_ids,    \* run_item_level_query: deduplicated non-null ids
  temp_table,      \* temp_order_ids in the session: whether it exists, its rows
  i,               \* loop variable of the chunked insert
  insert_calls,    \* the chunks passed to cur.executemany, in order
  done,            \* last value of `done` printed by the loop
  df_items,        \* result of the item-level query
  df_pivot,        \* transform_item_data: df_pivot after line 172
  df_final,        \* transform_item_data: returned table (rows)
  final_columns,   \* columns of the returned table
  subsets,         \* main: provider -> rows of that provider's subset
  export_idx,      \* position of the export loop in provider_map
  files,           \* provider -> rows written by to_csv (files of this run)
  skipped,         \* providers reported as "No rows found ..., skipping."
  progress,        \* the (done, pct) pairs printed by the insert loop, in order
  stage_log,       \* the steps of main() started so far, in order
  sf_conn,         \* MainApplicationWindow: a live connection was passed in
  gdrive_service,  \* MainApplicationWindow: a Drive service was passed in
  upload_method,   \* "api" | "local"
  run_button,      \* state of the Run button: "normal" | "disabled"
  export_button,   \* state of the Export button: "normal" | "disabled"
  report_df,       \* "None" | "empty" | "rows": result of the last query
  threads,         \* the background threads started so far, in order
  thread_queue,    \* parent.thread_queue: messages not yet polled
  dialog           \* title of the last messagebox shown, or "none"

main_vars == << dwh_orders, dwh_items, chunk_size, pc, conn, error, failed_at,
           df_orders, gp_order_ids, temp_table, i, insert_calls, done,
           df_items, df_pivot, df_final, final_columns, subsets, export_idx,
           files, skipped, progress, stage_log >>

gui_vars == << sf_conn, gdrive_service, upload_method, run_button, export_button,
               report_df, threads, thread_queue, dialog >>

vars == << main_vars, gui_vars >>

(***************************************************************************)
(* Warehouse contents the run can meet.                                     *)
(***************************************************************************)
OrderRow(id, tx, vg, ps, ov) ==
  [ gp_order_id |-> id, braintree_tx_index |-> tx,
    vendor_group |-> vg, payment_system |-> ps, order_vendor |-> ov ]

\* One item row; prices are in tenths of a currency unit (12.0 -> 120).
ItemRow(id, label) ==
  [ gp_order_id |-> id, vat_band |-> label,
    item_quantity_count |-> 3, total_price_inc_vat |-> 120,
    total_price_exc_vat |-> 114 ]

SeqsUpTo(S, n) == UNION { [1..k -> S] : k \in 0..n }

Reverse(s) == [ k \in 1..Len(s) |-> s[Len(s) + 1 - k] ]

\* An item table in which every order has items in the bands 0, 5 and 20.
FullItems ==
  [ k \in 1..(3 * Len(IdSeq)) |->
      ItemRow(IdSeq[((k - 1) \div 3) + 1], LabelSeq[((k - 1) % 3) + 1]) ]

\* The same table with one more row, of the fourth recognised label.
FullItemsAndOther == Append(FullItems, ItemRow("A", "Other / Unknown VAT Band"))

\* Item rows of the orders A and B, any label: kind k in 0..(2*|Labels|-1).
ItemKind(k) ==
  ItemRow(IdSeq[(k \div Len(LabelSeq)) + 1], LabelSeq[(k % Len(LabelSeq)) + 1])

ItemTables ==
  { [ k \in 1..Len(s) |-> ItemKind(s[k]) ] :
      s \in { t \in SeqsUpTo(0..(2 * Len(LabelSeq) - 1), MaxItems) :
                \A a, b \in 1..Len(t) : a <= b => t[a] <= t[b] } }

\* The rows of one order with n payment transactions, indexed 1..n.
TxRows(id, n) == [ k \in 1..n |-> OrderRow(id, Num(k), "dtc", "braintree", "gopuff") ]

VendorGroups == { "DTC", "mp", NULL }
PaymentSystems == { "braintree", "PayPal", NULL }
OrderVendors == { "gopuff", "Uber", "deliveroo", "Just Eat", "justeat",
                  "amazon uk", NULL }

\* temp_order_ids does not exist in a new session; an earlier run in the same
\* session (completed, or failed part-way through its inserts) leaves its rows
\* behind.  `replaced` holds the rows the last CREATE OR REPLACE discarded.
NoTable == [ exists |-> FALSE, rows |-> << >>, replaced |-> << >> ]
LeftoverTable == [ exists |-> TRUE, rows |-> << "A", "Z" >>, replaced |-> << >> ]

\* The identifiers vary: nulls, empty strings, duplicates, any chunk size; the
\* session of the connection may hold a temp_order_ids table of an earlier run.
InitStaging ==
  /\ dwh_orders \in SeqsUpTo({ OrderRow(id, Num(1), "dtc", "braintree", "gopuff") :
                                 id \in OrderIds \cup { NULL, "" } }, MaxStaged)
  /\ \/ /\ chunk_size \in 1..MaxChunk
        /\ dwh_items = FullItems
        /\ temp_table \in { NoTable, LeftoverTable }
     \/ /\ chunk_size = MaxChunk
        /\ dwh_items = FullItemsAndOther
        /\ temp_table = NoTable

\* The transactions per order and the item table vary.
InitTransform ==
  /\ \E nA, nB \in 0..MaxTx :
       dwh_orders \in { TxRows("A", nA) \o TxRows("B", nB),
                        Reverse(TxRows("A", nA) \o TxRows("B", nB)) }
  /\ chunk_size = MaxChunk
  /\ dwh_items \in ItemTables
  /\ temp_table = NoTable

\* The vendor classification of the rows varies; a row of the DTC group is
\* the first transaction of its order, the other rows carry no index.
InitRouting ==
  /\ \E n \in 0..MaxRouted :
       dwh_orders \in { [ k \in 1..n |-> OrderRow(IdSeq[((k - 1) % Len(IdSeq)) + 1],
                                                  IF f[k].vg = "DTC" THEN Num(1) ELSE NaN,
                                                  f[k].vg, f[k].ps, f[k].ov) ] :
                          f \in [1..n -> [ vg : VendorGroups, ps : PaymentSystems,
                                           ov : OrderVendors ]] }
  /\ chunk_size = MaxChunk
  /\ dwh_items = FullItems
  /\ temp_table = NoTable

(***************************************************************************)
(* MainApplicationWindow.__init__, lines 47-120: the connection objects     *)
(* come from the launcher; Run is enabled when there is a connection,       *)
(* Export is disabled, no result is held.                                   *)
(***************************************************************************)
WindowCreated(connection, service, method) ==
  /\ sf_conn = connection
  /\ gdrive_service = service
  /\ upload_method = method
  /\ run_button = IF connection THEN "normal" ELSE "disabled"
  /\ export_button = "disabled"
  /\ report_df = "None"
  /\ threads = << >>
  /\ thread_queue = << >>
  /\ dialog = "none"

\* main() of M01_combine_sql.py is run as a script: no window takes part.
NoWindow == WindowCreated(FALSE, FALSE, "local")

\* The values of the locals when main() is entered.
MainEntry ==
  /\ pc = "connect"
  /\ conn = "none"
  /\ error = "none"
  /\ failed_at = "none"
  /\ df_orders = << >>
  /\ gp_order_ids = << >>
  /\ i = 0
  /\ insert_calls = << >>
  /\ done = 0
  /\ df_items = << >>
  /\ df_pivot = [ index |-> {}, columns |-> {}, cell |-> << >> ]
  /\ df_final = << >>
  /\ final_columns = << >>
  /\ subsets = << >>
  /\ export_idx = 0
  /\ files = << >>
  /\ skipped = {}
  /\ progress = << >>
  /\ stage_log = << >>

Init ==
  /\ InitStaging \/ InitTransform \/ InitRouting
  /\ MainEntry
  /\ NoWindow

(***************************************************************************)
(* An exception leaves main(): nothing catches it (main has no try).        *)
(***************************************************************************)
\* Variant of Raise that wraps every exception in a generic one.
RaiseWrapped(kind) ==
  /\ error' = "Exception"
  /\ failed_at' = pc
  /\ pc' = "failed"

Raise(kind) ==
  /\ error' = kind
  /\ failed_at' = pc
  /\ pc' = "failed"

\* Variant of Connect that goes on to the staging before the order-level query.
ConnectThenStaging ==
  /\ pc = "connect"
  /\ stage_log' = Append(stage_log, "connect")
  /\ \/ /\ conn' = "open"
        /\ pc' = "stage_validate"
        /\ UNCHANGED << error, failed_at >>
     \/ /\ Raise("Exception")
        /\ UNCHANGED conn
  /\ UNCHANGED << dwh_orders, dwh_items, chunk_size, progress, df_orders, gp_order_ids,
                  temp_table, i, insert_calls, done, df_items, df_pivot,
                  df_final, final_columns, subsets, export_idx, files, skipped >>
  /\ UNCHANGED gui_vars

(***************************************************************************)
(* main, lines 201-205: connect_to_snowflake() returns a connection or a    *)
(* falsy value.                                                             *)
(***************************************************************************)
Connect ==
  /\ pc = "connect"
  /\ stage_log' = Append(stage_log, "connect")
  /\ \/ /\ conn' = "open"
        /\ pc' = "order_query"
        /\ UNCHANGED << error, failed_at >>
     \/ /\ Raise("Exception")
        /\ UNCHANGED conn
  /\ UNCHANGED << dwh_orders, dwh_items, chunk_size, progress, df_orders, gp_order_ids,
                  temp_table, i, insert_calls, done, df_items, df_pivot,
                  df_final, final_columns, subsets, export_idx, files, skipped >>
  /\ UNCHANGED gui_vars

(***************************************************************************)
(* run_order_level_query: get_sql_path may raise FileNotFoundError,         *)
(* read_sql_clean may raise the driver's error.                             *)
(***************************************************************************)
RunOrderLevelQuery ==
  /\ pc = "order_query"
  /\ stage_log' = Append(stage_log, "query_orders")
  /\ \/ /\ df_orders' = dwh_orders
        /\ pc' = "stage_validate"
        /\ UNCHANGED << error, failed_at >>
     \/ /\ \E kind \in { "FileNotFoundError", "DatabaseError" } : Raise(kind)
        /\ UNCHANGED df_orders
  /\ UNCHANGED << dwh_orders, dwh_items, chunk_size, progress, conn, gp_order_ids,
                  temp_table, i, insert_calls, done, df_items, df_pivot,
                  df_final, final_columns, subsets, export_idx, files, skipped >>
  /\ UNCHANGED gui_vars

(***************************************************************************)
(* df_orders["gp_order_id"].dropna().unique().tolist(): the non-null ids,   *)
(* each once, in order of first appearance.                                 *)
(***************************************************************************)
\* Variant of DropnaUnique without dropna(): a missing id is kept as an id.
RECURSIVE UniqueKeepingNull(_)
UniqueKeepingNull(ids) ==
  IF ids = << >> THEN << >>
  ELSE LET front == UniqueKeepingNull(SubSeq(ids, 1, Len(ids) - 1))
           last == ids[Len(ids)]
       IN IF last \in Range(front) THEN front ELSE Append(front, last)

RECURSIVE DropnaUnique(_)
DropnaUnique(ids) ==
  IF ids = << >> THEN << >>
  ELSE LET front == DropnaUnique(SubSeq(ids, 1, Len(ids) - 1))
           last == ids[Len(ids)]
       IN IF last = NULL \/ last \in Range(front) THEN front
          ELSE Append(front, last)

IdColumn(df) == [ k \in 1..Len(df) |-> df[k].gp_order_id ]

\* Variant of CreateOrReplace that keeps a table that exists (CREATE TABLE IF
\* NOT EXISTS).
CreateIfNotExists(table) ==
  IF table.exists THEN table
  ELSE [ exists |-> TRUE, rows |-> << >>, replaced |-> << >> ]

\* Line 110: CREATE OR REPLACE TEMP TABLE temp_order_ids.
CreateOrReplace(table) ==
  [ exists |-> TRUE, rows |-> << >>, replaced |-> table.rows ]

(***************************************************************************)
(* run_item_level_query, lines 103-113: validate, then CREATE OR REPLACE    *)
(* TEMP TABLE temp_order_ids.                                               *)
(***************************************************************************)
StageValidate ==
  /\ pc = "stage_validate"
  /\ stage_log' = Append(stage_log, "staging")
  /\ LET ids == DropnaUnique(IdColumn(df_orders))
     IN \/ /\ ids = << >>
           /\ Raise("ValueError")
           /\ UNCHANGED << gp_order_ids, temp_table >>
        \/ /\ ids # << >>
           /\ gp_order_ids' = ids
           /\ \/ /\ temp_table' = CreateOrReplace(temp_table)
                 /\ pc' = "stage_loop"
                 /\ UNCHANGED << error, failed_at >>
              \/ /\ Raise("DatabaseError")
                 /\ UNCHANGED temp_table
  /\ UNCHANGED i
  /\ UNCHANGED << dwh_orders, dwh_items, chunk_size, progress, conn, df_orders,
                  insert_calls, done, df_items, df_pivot, df_final,
                  final_columns, subsets, export_idx, files, skipped >>
  /\ UNCHANGED gui_vars

(***************************************************************************)
(* One iteration of the loop of lines 115-120: the slice                    *)
(* gp_order_ids[i:i + chunk_size] goes to cur.executemany, then `done` is   *)
(* computed and printed.  range() ends the loop when i reaches the length.  *)
(***************************************************************************)
\* Variant of Chunk that sends full chunks only: a shorter last slice is
\* left out.
ChunkFullOnly(ids, from, size) ==
  IF from + size <= Len(ids) THEN SubSeq(ids, from + 1, from + size) ELSE << >>

Chunk(ids, from, size) == SubSeq(ids, from + 1, Min2(from + size, Len(ids)))

\* Variant of DoneAfter without min(): the count overshoots on a short last chunk.
DoneAfterNoMin(from, size, total) == from + size

DoneAfter(from, size, total) == Min2(from + size, total)

\* Variant of Pct that reports the ratio without the factor 100.
PctUnscaled(count, total) == (count * 20 + total) \div (2 * total)

\* pct = (done / len(gp_order_ids)) * 100, printed with one decimal: the
\* percentage in tenths, rounded to the nearest tenth.
Pct(count, total) == (count * 2000 + total) \div (2 * total)

StageBatch ==
  /\ pc = "stage_loop"
  /\ i < Len(gp_order_ids)
  /\ \/ /\ temp_table' = [ temp_table EXCEPT
                            !.rows = @ \o Chunk(gp_order_ids, i, chunk_size) ]
        /\ insert_calls' = Append(insert_calls, Chunk(gp_order_ids, i, chunk_size))
        /\ done' = DoneAfter(i, chunk_size, Len(gp_order_ids))
        /\ progress' = Append(progress,
                               [ done |-> DoneAfter(i, chunk_size, Len(gp_order_ids)),
                                 pct |-> Pct(DoneAfter(i, chunk_size, Len(gp_order_ids)),
                                             Len(gp_order_ids)) ])
        /\ i' = i + chunk_size
        /\ pc' = IF i + chunk_size < Len(gp_order_ids) THEN "stage_loop" ELSE "item_query"
        /\ UNCHANGED << error, failed_at >>
     \/ /\ Raise("DatabaseError")
        /\ UNCHANGED << temp_table, insert_calls, done, i, progress >>
  /\ UNCHANGED << dwh_orders, dwh_items, chunk_size, stage_log, conn, df_orders,
                  gp_order_ids, df_items, df_pivot, df_final, final_columns,
                  subsets, export_idx, files, skipped >>
  /\ UNCHANGED gui_vars

\* Variant of ItemsOfStaged that scans the whole item table ({{order_id_list}}
\* replaced by nothing that restricts the rows).
ItemsOfStagedFullScan(items, staged) == items

(***************************************************************************)
(* run_item_level_query, lines 125-137: the item-level query with           *)
(* {{order_id_list}} replaced by SELECT gp_order_id FROM temp_order_ids.    *)
(***************************************************************************)
ItemsOfStaged(items, staged) ==
  LET InStaged(r) == r.gp_order_id \in Range(staged)
  IN SelectSeq(items, InStaged)

RunItemLevelQuery ==
  /\ pc = "item_query"
  /\ stage_log' = Append(stage_log, "query_items")
  /\ \/ /\ df_items' = ItemsOfStaged(dwh_items, temp_table.rows)
        /\ pc' = "transform"
        /\ UNCHANGED << error, failed_at >>
     \/ /\ \E kind \in { "FileNotFoundError", "DatabaseError" } : Raise(kind)
        /\ UNCHANGED df_items
  /\ UNCHANGED << dwh_orders, dwh_items, chunk_size, progress, conn, df_orders,
                  gp_order_ids, temp_table, i, insert_calls, done, df_pivot,
                  df_final, final_columns, subsets, export_idx, files, skipped >>
  /\ UNCHANGED gui_vars

(***************************************************************************)
(* transform_item_data, lines 149-155: Series.replace with the mapping;     *)
(* a label that is not a key of the mapping is kept.                        *)
(***************************************************************************)
\* Variant of ReplaceVatBand that turns every label it does not know into
\* "other".
ReplaceVatBandCatchAll(label) ==
  CASE label = "0% VAT Band" -> "0"
    [] label = "5% VAT Band" -> "5"
    [] label = "20% VAT Band" -> "20"
    [] OTHER -> "other"

ReplaceVatBand(label) ==
  CASE label = "0% VAT Band" -> "0"
    [] label = "5% VAT Band" -> "5"
    [] label = "20% VAT Band" -> "20"
    [] label = "Other / Unknown VAT Band" -> "other"
    [] OTHER -> label

NormalizeItems(items) ==
  [ k \in 1..Len(items) |->
      [ items[k] EXCEPT !.vat_band = ReplaceVatBand(items[k].vat_band) ] ]

(***************************************************************************)
(* transform_item_data, lines 157-172: pivot_table(index=gp_order_id,       *)
(* columns=vat_band, values=the three metrics, aggfunc=sum, fill_value=0),  *)
(* the flattened column names and total_products.  The pivot has a column   *)
(* for a (metric, band) pair only when the band occurs in the item table.   *)
(***************************************************************************)
ColName(metric, band) == metric \o "_" \o band

\* Variant of SumMetric that takes the first value of a group (aggfunc="first").
FirstMetric(items, id, band, metric) ==
  LET group == { k \in 1..Len(items) :
                   items[k].gp_order_id = id /\ items[k].vat_band = band }
  IN IF group = {} THEN 0
     ELSE items[CHOOSE k \in group : \A j \in group : k <= j][metric]

RECURSIVE SumMetric(_, _, _, _)
SumMetric(items, id, band, metric) ==
  IF items = << >> THEN 0
  ELSE LET r == items[Len(items)]
           rest == SumMetric(SubSeq(items, 1, Len(items) - 1), id, band, metric)
       IN IF r.gp_order_id = id /\ r.vat_band = band THEN rest + r[metric] ELSE rest

RECURSIVE SumOver(_, _)
SumOver(S, f) ==
  IF S = {} THEN 0
  ELSE LET x == CHOOSE y \in S : TRUE IN f[x] + SumOver(S \ {x}, f)

PivotBands(items) == { items[k].vat_band : k \in 1..Len(items) }

PivotIndex(items) == { items[k].gp_order_id : k \in 1..Len(items) } \ { NULL }

PivotColumns(items) ==
  { ColName(m, b) : m \in Metrics, b \in PivotBands(items) }

\* Variant of TotalProducts that adds up the four recognised bands only.
TotalProductsKnownBands(items, id) ==
  SumOver({ "0", "5", "20", "other" },
          [ b \in { "0", "5", "20", "other" } |->
              SumMetric(items, id, b, "item_quantity_count") ])

\* df_pivot.filter(like="item_quantity_count_").sum(axis=1)
TotalProducts(items, id) ==
  SumOver(PivotBands(items),
          [ b \in PivotBands(items) |-> SumMetric(items, id, b, "item_quantity_count") ])

PivotTable(items) ==
  [ index |-> PivotIndex(items),
    columns |-> PivotColumns(items) \cup { "total_products" },
    cell |-> [ id \in PivotIndex(items) |->
                 [ c \in PivotColumns(items) \cup { "total_products" } |->
                     IF c = "total_products" THEN TotalProducts(items, id)
                     ELSE LET p == CHOOSE q \in Metrics \X PivotBands(items) :
                                     ColName(q[1], q[2]) = c
                          IN SumMetric(items, id, p[2], p[1]) ] ] ]

(***************************************************************************)
(* transform_item_data, lines 174-183: left merge on gp_order_id, then the  *)
(* item columns of the rows with braintree_tx_index >= 2 are set to NaN.    *)
(* item_cols are the columns whose name contains one of the four item       *)
(* names: every pivot column, and no column of the order table.             *)
(***************************************************************************)
\* Variant of MergeRow that fills the item columns of an unmatched row with 0.
MergeRowZeroFilled(r, pivot) ==
  [ gp_order_id |-> r.gp_order_id,
    braintree_tx_index |-> r.braintree_tx_index,
    vendor_group |-> r.vendor_group,
    payment_system |-> r.payment_system,
    order_vendor |-> r.order_vendor,
    item |-> [ c \in pivot.columns |->
                 IF r.gp_order_id \in pivot.index
                 THEN Num(pivot.cell[r.gp_order_id][c]) ELSE Num(0) ] ]

MergeRow(r, pivot) ==
  [ gp_order_id |-> r.gp_order_id,
    braintree_tx_index |-> r.braintree_tx_index,
    vendor_group |-> r.vendor_group,
    payment_system |-> r.payment_system,
    order_vendor |-> r.order_vendor,
    item |-> [ c \in pivot.columns |->
                 IF r.gp_order_id \in pivot.index
                 THEN Num(pivot.cell[r.gp_order_id][c]) ELSE NaN ] ]

\* Variant of Mask with > 2 in place of >= 2: the second transaction is kept.
MaskAboveTwo(r) == notna(r.braintree_tx_index) /\ r.braintree_tx_index[1] > 2

Mask(r) == notna(r.braintree_tx_index) /\ r.braintree_tx_index[1] >= 2

\* Lines 178-180: item_cols are the columns whose name contains one of four
\* names.
ItemNames == { "item_quantity_count", "total_price_inc_vat", "total_price_exc_vat",
               "total_products" }

Contains(c, x) ==
  \E k \in 1..(Len(c) - Len(x) + 1) : SubSeq(c, k, k + Len(x) - 1) = x

IsItemCol(c) == \E x \in ItemNames : Contains(c, x)

\* Variant of ClearDuplicated that clears every row but those of the first
\* transaction, the rows without an index included.
ClearAllButFirst(r) ==
  IF r.braintree_tx_index # Num(1)
  THEN [ r EXCEPT !.item = [ c \in DOMAIN r.item |-> NaN ] ] ELSE r

ClearDuplicated(r) ==
  IF Mask(r)
  THEN [ r EXCEPT !.item = [ c \in DOMAIN r.item |->
                               IF IsItemCol(c) THEN NaN ELSE r.item[c] ] ]
  ELSE r

(***************************************************************************)
(* transform_item_data, line 186: sort_values by gp_order_id, then          *)
(* braintree_tx_index, ascending, missing values last, ties in input order. *)
(***************************************************************************)
IdRank(id) ==
  IF id = NULL THEN Len(IdSeq) + 1
  ELSE IF id = "" THEN 0
  ELSE CHOOSE k \in 1..Len(IdSeq) : IdSeq[k] = id

TxRank(tx) == IF tx = NaN THEN MaxTx + 2 ELSE tx[1]

\* Variant of RowLeq that compares the identifiers only (by=["gp_order_id"]).
RowLeqByIdOnly(a, b) == IdRank(a.gp_order_id) <= IdRank(b.gp_order_id)

RowLeq(a, b) ==
  \/ IdRank(a.gp_order_id) < IdRank(b.gp_order_id)
  \/ /\ IdRank(a.gp_order_id) = IdRank(b.gp_order_id)
     /\ TxRank(a.braintree_tx_index) <= TxRank(b.braintree_tx_index)

\* Variant of InsertSorted that drops a row whose identifier and index are
\* already in the table (drop_duplicates on the sort keys).
InsertSortedUnique(s, r) ==
  IF \E k \in 1..Len(s) : /\ s[k].gp_order_id = r.gp_order_id
                           /\ s[k].braintree_tx_index = r.braintree_tx_index
  THEN s
  ELSE LET before == { k \in 1..Len(s) : RowLeq(s[k], r) }
       IN SubSeq(s, 1, Cardinality(before)) \o << r >>
            \o SubSeq(s, Cardinality(before) + 1, Len(s))

RECURSIVE InsertSorted(_, _)
InsertSorted(s, r) ==
  IF s = << >> THEN << r >>
  ELSE IF RowLeq(s[Len(s)], r) THEN Append(s, r)
  ELSE Append(InsertSorted(SubSeq(s, 1, Len(s) - 1), r), s[Len(s)])

RECURSIVE SortValues(_)
SortValues(s) ==
  IF s = << >> THEN << >>
  ELSE InsertSorted(SortValues(SubSeq(s, 1, Len(s) - 1)), s[Len(s)])

(***************************************************************************)
(* transform_item_data, line 187: df_final[FINAL_DF_ORDER] raises KeyError  *)
(* when a listed column is not in the merged table.  The order table has    *)
(* the order-level columns of the list (P04: the list is aligned with the   *)
(* SELECT statements of the SQL templates).                                 *)
(***************************************************************************)
MergedColumns(pivot) == Range(OrderLevelColumns) \cup pivot.columns

MissingColumns(pivot) == Range(FINAL_DF_ORDER) \ MergedColumns(pivot)

\* Variant of SelectFinal that keeps every column of the merged table.
SelectFinalKeepingAll(r) == r

SelectFinal(r) ==
  [ r EXCEPT !.item = [ c \in Range(ItemLevelColumns) |-> r.item[c] ] ]

FinalTable(orders, pivot) ==
  LET merged == [ k \in 1..Len(orders) |-> ClearDuplicated(MergeRow(orders[k], pivot)) ]
      sorted == SortValues(merged)
  IN [ k \in 1..Len(sorted) |-> SelectFinal(sorted[k]) ]

TransformItemData ==
  /\ pc = "transform"
  /\ stage_log' = stage_log \o << "transform", "merge" >>
  /\ df_items' = NormalizeItems(df_items)
  /\ df_pivot' = PivotTable(NormalizeItems(df_items))
  /\ IF MissingColumns(PivotTable(NormalizeItems(df_items))) # {}
     THEN /\ Raise("KeyError")
          /\ UNCHANGED << df_final, final_columns >>
     ELSE /\ df_final' = FinalTable(df_orders, PivotTable(NormalizeItems(df_items)))
          /\ final_columns' = FINAL_DF_ORDER
          /\ pc' = "close"
          /\ UNCHANGED << error, failed_at >>
  /\ UNCHANGED << dwh_orders, dwh_items, chunk_size, progress, conn, df_orders,
                  gp_order_ids, temp_table, i, insert_calls, done, subsets,
                  export_idx, files, skipped >>
  /\ UNCHANGED gui_vars

(***************************************************************************)
(* main, lines 216-218: conn.close() after the transformation returned.     *)
(***************************************************************************)
CloseConnection ==
  /\ pc = "close"
  /\ stage_log' = Append(stage_log, "close")
  /\ conn' = "closed"
  /\ pc' = "subsets"
  /\ UNCHANGED << dwh_orders, dwh_items, chunk_size, progress, error, failed_at,
                  df_orders, gp_order_ids, temp_table, i, insert_calls, done,
                  df_items, df_pivot, df_final, final_columns, subsets,
                  export_idx, files, skipped >>
  /\ UNCHANGED gui_vars

\* Variant of Lower that leaves the letter case as it is (a case-sensitive
\* comparison).
LowerKeepingCase(s) == s

(***************************************************************************)
(* main, lines 220-240: the period label and the six provider subsets.      *)
(* Series.str.lower() keeps a missing value missing; a missing value is     *)
(* equal to no string and differs from every string.                        *)
(***************************************************************************)
Lower(s) ==
  CASE s = "DTC" -> "dtc"
    [] s = "PayPal" -> "paypal"
    [] s = "Uber" -> "uber"
    [] s = "Just Eat" -> "just eat"
    [] OTHER -> s

ProviderOrder == << "Braintree", "PayPal", "Uber", "Deliveroo", "Just Eat", "Amazon" >>

\* Variant of InSubset whose Braintree test leaves out the payment system.
InSubsetBraintreeAnyPayment(provider, r) ==
  CASE provider = "Braintree" -> Lower(r.vendor_group) = "dtc"
    [] provider = "PayPal" ->
         Lower(r.vendor_group) = "dtc" /\ Lower(r.payment_system) = "paypal"
    [] provider = "Uber" -> Lower(r.order_vendor) = "uber"
    [] provider = "Deliveroo" -> Lower(r.order_vendor) = "deliveroo"
    [] provider = "Just Eat" -> Lower(r.order_vendor) \in { "just eat", "justeat" }
    [] provider = "Amazon" -> Lower(r.order_vendor) = "amazon uk"

InSubset(provider, r) ==
  CASE provider = "Braintree" ->
         Lower(r.vendor_group) = "dtc" /\ Lower(r.payment_system) # "paypal"
    [] provider = "PayPal" ->
         Lower(r.vendor_group) = "dtc" /\ Lower(r.payment_system) = "paypal"
    [] provider = "Uber" -> Lower(r.order_vendor) = "uber"
    [] provider = "Deliveroo" -> Lower(r.order_vendor) = "deliveroo"
    [] provider = "Just Eat" -> Lower(r.order_vendor) \in { "just eat", "justeat" }
    [] provider = "Amazon" -> Lower(r.order_vendor) = "amazon uk"

ProviderSubset(provider, df) ==
  LET Keep(r) == InSubset(provider, r) IN SelectSeq(df, Keep)

\* Variant of BuildSubsets that writes the first non-empty subset before the
\* period label is computed, so a failure of the label leaves a file behind.
BuildSubsetsWritingEarly ==
  /\ pc = "subsets"
  /\ stage_log' = Append(stage_log, "partition_and_export")
  /\ \/ /\ subsets' = [ p \in Range(ProviderOrder) |-> ProviderSubset(p, df_final) ]
        /\ export_idx' = 1
        /\ pc' = "export"
        /\ UNCHANGED << error, failed_at, files >>
     \/ /\ Raise("ValueError")
        /\ files' = Append(files, [ provider |-> "Braintree",
                                    rows |-> ProviderSubset("Braintree", df_final) ])
        /\ UNCHANGED << subsets, export_idx >>
  /\ UNCHANGED << dwh_orders, dwh_items, chunk_size, progress, conn, df_orders,
                  gp_order_ids, temp_table, i, insert_calls, done, df_items,
                  df_pivot, df_final, final_columns, skipped >>
  /\ UNCHANGED gui_vars

BuildSubsets ==
  /\ pc = "subsets"
  /\ stage_log' = Append(stage_log, "partition_and_export")
  /\ \/ /\ subsets' = [ p \in Range(ProviderOrder) |-> ProviderSubset(p, df_final) ]
        /\ export_idx' = 1
        /\ pc' = "export"
        /\ UNCHANGED << error, failed_at >>
     \/ /\ Raise("ValueError")
        /\ UNCHANGED << subsets, export_idx >>
  /\ UNCHANGED << dwh_orders, dwh_items, chunk_size, progress, conn, df_orders,
                  gp_order_ids, temp_table, i, insert_calls, done, df_items,
                  df_pivot, df_final, final_columns, files, skipped >>
  /\ UNCHANGED gui_vars

\* Variant of ExportProvider that leaves the loop at the first empty subset
\* (break in place of continue).
ExportProviderBreakOnEmpty ==
  /\ pc = "export"
  /\ export_idx <= Len(ProviderOrder)
  /\ LET provider == ProviderOrder[export_idx]
         advance == /\ export_idx' = export_idx + 1
                    /\ stage_log' = IF export_idx = Len(ProviderOrder)
                                    THEN Append(stage_log, "done") ELSE stage_log
                    /\ pc' = IF export_idx = Len(ProviderOrder) THEN "done" ELSE "export"
                    /\ UNCHANGED << error, failed_at >>
     IN IF subsets[provider] = << >>
        THEN /\ skipped' = skipped \cup { provider }
             /\ export_idx' = Len(ProviderOrder) + 1
             /\ stage_log' = Append(stage_log, "done")
             /\ pc' = "done"
             /\ UNCHANGED << error, failed_at, files >>
        ELSE \/ /\ files' = Append(files, [ provider |-> provider,
                                            rows |-> subsets[provider] ])
                /\ advance
                /\ UNCHANGED skipped
             \/ /\ Raise("OSError")
                /\ UNCHANGED << files, skipped, export_idx, stage_log >>
  /\ UNCHANGED << dwh_orders, dwh_items, chunk_size, progress, conn, df_orders,
                  gp_order_ids, temp_table, i, insert_calls, done, df_items,
                  df_pivot, df_final, final_columns, subsets >>
  /\ UNCHANGED gui_vars

(***************************************************************************)
(* main, lines 242-255: one iteration of the export loop.  An empty subset  *)
(* is reported and skipped; otherwise mkdir and to_csv write the file, or   *)
(* raise.                                                                   *)
(***************************************************************************)
ExportProvider ==
  /\ pc = "export"
  /\ export_idx <= Len(ProviderOrder)
  /\ LET provider == ProviderOrder[export_idx]
         advance == /\ export_idx' = export_idx + 1
                    /\ stage_log' = IF export_idx = Len(ProviderOrder)
                                    THEN Append(stage_log, "done") ELSE stage_log
                    /\ pc' = IF export_idx = Len(ProviderOrder) THEN "done" ELSE "export"
                    /\ UNCHANGED << error, failed_at >>
     IN IF subsets[provider] = << >>
        THEN /\ skipped' = skipped \cup { provider }
             /\ advance
             /\ UNCHANGED files
        ELSE \/ /\ files' = Append(files, [ provider |-> provider,
                                            rows |-> subsets[provider] ])
                /\ advance
                /\ UNCHANGED skipped
             \/ /\ Raise("OSError")
                /\ UNCHANGED << files, skipped, export_idx, stage_log >>
  /\ UNCHANGED << dwh_orders, dwh_items, chunk_size, progress, conn, df_orders,
                  gp_order_ids, temp_table, i, insert_calls, done, df_items,
                  df_pivot, df_final, final_columns, subsets >>
  /\ UNCHANGED gui_vars

Next ==
  \/ Connect
  \/ RunOrderLevelQuery
  \/ StageValidate
  \/ StageBatch
  \/ RunItemLevelQuery
  \/ TransformItemData
  \/ CloseConnection
  \/ BuildSubsets
  \/ ExportProvider

Spec == Init /\ [][Next]_vars

(***************************************************************************)
(* MainApplicationWindow (P05b_gui_elements_main.py).  The Tk main thread   *)
(* runs the button commands and the queue poll one at a time; every query   *)
(* and every export runs in a thread of its own and answers through         *)
(* parent.thread_queue.                                                     *)
(***************************************************************************)
\* Threads started over the life of the window.
MaxThreads == 4

Msg(action, data) == [ action |-> action, data |-> data ]

Thread(kind, df) == [ kind |-> kind, state |-> "started", df |-> df, puts |-> 0 ]

\* The window is created with or without a connection and a Drive service;
\* main() is not running.
InitGui ==
  /\ \E connection, service \in BOOLEAN, method \in { "api", "local" } :
       WindowCreated(connection, service, method)
  /\ dwh_orders = << >>
  /\ dwh_items = << >>
  /\ chunk_size = MaxChunk
  /\ temp_table = NoTable
  /\ MainEntry

\* run_query, lines 157-172: the command of the Run button (a disabled
\* button does not call its command).  The query text is empty or not.
RunQuery ==
  /\ run_button = "normal"
  /\ Len(threads) < MaxThreads
  /\ \E sql_query \in { "", "SELECT" } :
       IF ~sf_conn
       THEN /\ dialog' = "Connection Error"
            /\ UNCHANGED << run_button, export_button, threads >>
       ELSE IF sql_query = ""
       THEN /\ dialog' = "Input Error"
            /\ UNCHANGED << run_button, export_button, threads >>
       ELSE /\ run_button' = "disabled"
            /\ export_button' = "disabled"
            /\ threads' = Append(threads, Thread("query", "none"))
            /\ UNCHANGED dialog
  /\ UNCHANGED << sf_conn, gdrive_service, upload_method, report_df, thread_queue >>
  /\ UNCHANGED main_vars

\* threaded_run_query, line 177: the thread calls pd.read_sql on sf_conn.
ThreadedRunQueryRead(t) ==
  /\ threads[t].kind = "query"
  /\ threads[t].state = "started"
  /\ threads' = [ threads EXCEPT ![t].state = "reading" ]
  /\ UNCHANGED << sf_conn, gdrive_service, upload_method, run_button,
                  export_button, report_df, thread_queue, dialog >>
  /\ UNCHANGED main_vars

\* threaded_run_query, lines 177-180: read_sql returns a table (with or
\* without rows) or raises; the thread puts one message and ends.
ThreadedRunQueryPut(t) ==
  /\ threads[t].kind = "query"
  /\ threads[t].state = "reading"
  /\ \E outcome \in { "rows", "empty", "raises" } :
       thread_queue' = Append(thread_queue,
                              IF outcome = "raises" THEN Msg("query_failure", "none")
                              ELSE Msg("query_success", outcome))
  /\ threads' = [ threads EXCEPT ![t].state = "ended", ![t].puts = @ + 1 ]
  /\ UNCHANGED << sf_conn, gdrive_service, upload_method, run_button,
                  export_button, report_df, dialog >>
  /\ UNCHANGED main_vars

\* export_report, lines 185-200: the command of the Export button.
ExportReport ==
  /\ export_button = "normal"
  /\ Len(threads) < MaxThreads
  /\ IF report_df \in { "None", "empty" }
     THEN /\ dialog' = "Export Error"
          /\ UNCHANGED << export_button, threads >>
     ELSE /\ export_button' = "disabled"
          /\ threads' = Append(threads,
                               Thread(IF upload_method = "api" THEN "export_api"
                                      ELSE "export_local", report_df))
          /\ UNCHANGED dialog
  /\ UNCHANGED << sf_conn, gdrive_service, upload_method, run_button, report_df,
                  thread_queue >>
  /\ UNCHANGED main_vars

\* _export_local_csv, lines 202-222: to_csv succeeds or raises.
ExportLocalCsv(t) ==
  /\ threads[t].kind = "export_local"
  /\ threads[t].state = "started"
  /\ \E written \in BOOLEAN :
       thread_queue' = Append(thread_queue,
                              Msg(IF written THEN "export_success"
                                  ELSE "export_failure", "none"))
  /\ threads' = [ threads EXCEPT ![t].state = "ended", ![t].puts = @ + 1 ]
  /\ UNCHANGED << sf_conn, gdrive_service, upload_method, run_button,
                  export_button, report_df, dialog >>
  /\ UNCHANGED main_vars

\* Variant of ExportApiCsv that returns without a message when there is no
\* Drive service.
ExportApiCsvSilentWithoutService(t) ==
  /\ threads[t].kind = "export_api"
  /\ threads[t].state = "started"
  /\ IF gdrive_service
     THEN /\ \E upload \in { "file_id", "no_file_id", "raises" } :
               thread_queue' = Append(thread_queue,
                                      Msg(IF upload = "file_id" THEN "export_success"
                                          ELSE "export_failure", "none"))
          /\ threads' = [ threads EXCEPT ![t].state = "ended", ![t].puts = @ + 1 ]
     ELSE /\ threads' = [ threads EXCEPT ![t].state = "ended" ]
          /\ UNCHANGED thread_queue
  /\ UNCHANGED << sf_conn, gdrive_service, upload_method, run_button,
                  export_button, report_df, dialog >>
  /\ UNCHANGED main_vars

\* _export_api_csv, lines 224-262: without a service the thread reports a
\* failure at once; otherwise the upload returns a file id, returns none
\* (line 254 raises) or raises.
ExportApiCsv(t) ==
  /\ threads[t].kind = "export_api"
  /\ threads[t].state = "started"
  /\ \E upload \in { "file_id", "no_file_id", "raises" } :
       thread_queue' = Append(thread_queue,
                              Msg(IF gdrive_service /\ upload = "file_id"
                                  THEN "export_success" ELSE "export_failure", "none"))
  /\ threads' = [ threads EXCEPT ![t].state = "ended", ![t].puts = @ + 1 ]
  /\ UNCHANGED << sf_conn, gdrive_service, upload_method, run_button,
                  export_button, report_df, dialog >>
  /\ UNCHANGED main_vars

\* Variant of CheckForThreadResults that leaves the Run button as it is when a
\* query has failed.
CheckForThreadResultsRunLeftOnFailure ==
  /\ IF thread_queue = << >>
     THEN UNCHANGED << run_button, export_button, report_df, thread_queue, dialog >>
     ELSE LET message == Head(thread_queue)
          IN /\ thread_queue' = Tail(thread_queue)
             /\ run_button' = IF message.action = "query_failure" THEN run_button
                               ELSE "normal"
             /\ export_button' = IF message.action = "query_failure" THEN "disabled"
                                 ELSE "normal"
             /\ report_df' = CASE message.action = "query_success" -> message.data
                               [] message.action = "query_failure" -> "None"
                               [] OTHER -> report_df
             /\ dialog' = CASE message.action = "query_failure" -> "SQL Error"
                            [] message.action = "export_failure" -> "Export Error"
                            [] OTHER -> dialog
  /\ UNCHANGED << sf_conn, gdrive_service, upload_method, threads >>
  /\ UNCHANGED main_vars

\* check_for_thread_results, lines 269-319: one poll.  An empty queue
\* (queue.Empty) changes nothing.
CheckForThreadResults ==
  /\ IF thread_queue = << >>
     THEN UNCHANGED << run_button, export_button, report_df, thread_queue, dialog >>
     ELSE LET message == Head(thread_queue)
          IN /\ thread_queue' = Tail(thread_queue)
             /\ run_button' = "normal"
             /\ export_button' = IF message.action = "query_failure" THEN "disabled"
                                 ELSE "normal"
             /\ report_df' = CASE message.action = "query_success" -> message.data
                               [] message.action = "query_failure" -> "None"
                               [] OTHER -> report_df
             /\ dialog' = CASE message.action = "query_failure" -> "SQL Error"
                            [] message.action = "export_failure" -> "Export Error"
                            [] OTHER -> dialog
  /\ UNCHANGED << sf_conn, gdrive_service, upload_method, threads >>
  /\ UNCHANGED main_vars

NextGui ==
  \/ RunQuery
  \/ ExportReport
  \/ \E t \in 1..Len(threads) : ThreadedRunQueryRead(t)
  \/ \E t \in 1..Len(threads) : ThreadedRunQueryPut(t)
  \/ \E t \in 1..Len(threads) : ExportLocalCsv(t)
  \/ \E t \in 1..Len(threads) : ExportApiCsv(t)
  \/ CheckForThreadResults

SpecGui == InitGui /\ [][NextGui]_vars

\* A step of some background thread: Python runs every started thread until
\* its target returns.
ThreadStep ==
  \E t \in 1..Len(threads) :
    \/ ThreadedRunQueryRead(t)
    \/ ThreadedRunQueryPut(t)
    \/ ExportLocalCsv(t)
    \/ ExportApiCsv(t)

\* The window with its scheduling: started threads run to their end, and the
\* poll, which reschedules itself every 100 ms (line 319), takes a waiting
\* message.  The clicks are the user's and carry no fairness.
SpecGuiFair ==
  /\ SpecGui
  /\ WF_vars(ThreadStep)
  /\ WF_vars(CheckForThreadResults)

(***************************************************************************)
(* Positions of a run.                                                      *)
(***************************************************************************)
\* The chunked insert loop has ended normally.
StagingCompleted ==
  \/ pc \in { "item_query", "transform", "close", "subsets", "export", "done" }
  \/ pc = "failed" /\ failed_at \in { "item_query", "transform", "subsets", "export" }

\* transform_item_data has returned its table.
TransformReturned ==
  \/ pc \in { "close", "subsets", "export", "done" }
  \/ pc = "failed" /\ failed_at \in { "subsets", "export" }

CeilDiv(n, d) == (n + d - 1) \div d

RECURSIVE TotalLen(_)
TotalLen(calls) ==
  IF calls = << >> THEN 0
  ELSE TotalLen(SubSeq(calls, 1, Len(calls) - 1)) + Len(calls[Len(calls)])

(***************************************************************************)
(* C1.  When the staging loop has ended, it has inserted exactly |S|        *)
(* identifiers in exactly ceil(|S| / B) insert calls, each call carried at  *)
(* most B identifiers (and at least one), and the last cumulative count     *)
(* reported equals |S|, where S is the deduplicated id list and B the chunk *)
(* size.                                                                    *)
(***************************************************************************)
C1_StagingCounts ==
  /\ \A k \in 1..Len(insert_calls) :
       Len(insert_calls[k]) >= 1 /\ Len(insert_calls[k]) <= chunk_size
  /\ StagingCompleted =>
       /\ gp_order_ids # << >>
       /\ TotalLen(insert_calls) = Len(gp_order_ids)
       /\ Len(temp_table.rows) = Len(gp_order_ids)
       /\ Len(insert_calls) = CeilDiv(Len(gp_order_ids), chunk_size)
       /\ done = Len(gp_order_ids)

\* A completed staging whose last chunk is short: |S| = 3, B = 2.
C1_Witness ==
  /\ StagingCompleted
  /\ Len(gp_order_ids) = 3
  /\ chunk_size = 2
  /\ Len(insert_calls) = 2

(***************************************************************************)
(* C2.  As stated: staging an identifier set that is empty or holds only    *)
(* nulls fails with the error kind EmptyKeySetError.                        *)
(***************************************************************************)
EmptyKeySet == \A k \in 1..Len(df_orders) : df_orders[k].gp_order_id = NULL

ReachedValidation ==
  \/ pc \notin { "connect", "order_query", "stage_validate", "failed" }
  \/ pc = "failed" /\ failed_at \notin { "connect", "order_query" }

KnownBands == { "0", "5", "20", "other" }

AllMissing(r) == \A c \in DOMAIN r.item : r.item[c] = NaN
NoneMissing(r) == \A c \in DOMAIN r.item : r.item[c] # NaN

RowsOf(df, id) == { k \in 1..Len(df) : df[k].gp_order_id = id }

\* The rows of order id in the order table carry transaction_index 1..N, N > 1.
HasTx1toN(id) ==
  \E N \in 2..Len(df_orders) :
    /\ Cardinality(RowsOf(df_orders, id)) = N
    /\ { df_orders[k].braintree_tx_index : k \in RowsOf(df_orders, id) }
         = { Num(n) : n \in 1..N }

\* The value of a pivot column for an order; a column the pivot lacks reads 0.
PivotValue(id, col) ==
  IF col \in df_pivot.columns THEN df_pivot.cell[id][col] ELSE 0

\* transform_item_data has built df_pivot (it may then have raised at line 187).
PivotBuilt == TransformReturned \/ (pc = "failed" /\ failed_at = "transform")

(***************************************************************************)
(* C3.  As stated: for every order whose rows carry transaction_index 1..N  *)
(* with N > 1, in the returned table the row with transaction_index 1 has   *)
(* all item-derived columns non-missing and the rows 2..N have them all     *)
(* missing.                                                                 *)
(***************************************************************************)
C3_AsStated ==
  TransformReturned =>
    \A id \in OrderIds : HasTx1toN(id) =>
      \A k \in RowsOf(df_final, id) :
        IF df_final[k].braintree_tx_index = Num(1)
        THEN NoneMissing(df_final[k]) ELSE AllMissing(df_final[k])

(***************************************************************************)
(* C3, amended.  For every order whose rows carry transaction_index 1..N    *)
(* with N > 1, in the returned table the rows 2..N have all item-derived    *)
(* columns missing; the row with transaction_index 1 has them all           *)
(* non-missing when the order has a row in the pivot (it has item rows),    *)
(* and all missing when it has none.                                        *)
(***************************************************************************)
C3_FirstTransactionCarriesItems ==
  TransformReturned =>
    \A id \in OrderIds : HasTx1toN(id) =>
      \A k \in RowsOf(df_final, id) :
        IF df_final[k].braintree_tx_index = Num(1) /\ id \in df_pivot.index
        THEN NoneMissing(df_final[k]) ELSE AllMissing(df_final[k])

\* An order with two transactions and items, in a returned table.
C3_Witness ==
  /\ TransformReturned
  /\ HasTx1toN("A")
  /\ "A" \in df_pivot.index
  /\ \E k \in RowsOf(df_final, "A") :
       df_final[k].braintree_tx_index = Num(2) /\ AllMissing(df_final[k])
  /\ \E k \in RowsOf(df_final, "A") :
       df_final[k].braintree_tx_index = Num(1) /\ NoneMissing(df_final[k])

(***************************************************************************)
(* C5.  After the pivot, for every order of the pivot and every (metric,    *)
(* band) for which the order has no item rows in that band, the column      *)
(* {metric}_{band} exists and holds 0 for that order.                       *)
(***************************************************************************)
C5_AbsentBandIsZero ==
  PivotBuilt =>
    \A id \in df_pivot.index : \A m \in Metrics : \A b \in KnownBands :
      (\A k \in 1..Len(df_items) :
         ~(df_items[k].gp_order_id = id /\ df_items[k].vat_band = b)) =>
        /\ ColName(m, b) \in df_pivot.columns
        /\ df_pivot.cell[id][ColName(m, b)] = 0

(***************************************************************************)
(* C6.  The pivot has one row per order_id of the item table and a column   *)
(* for every combination of the three metrics with every VAT band (0, 5,    *)
(* 20, other), whichever bands occur in the item rows of the run.           *)
(***************************************************************************)
C6_FixedPivotSchema ==
  PivotBuilt =>
    /\ df_pivot.index = { df_items[k].gp_order_id : k \in 1..Len(df_items) }
    /\ \A m \in Metrics : \A b \in KnownBands : ColName(m, b) \in df_pivot.columns

(***************************************************************************)
(* C7.  As stated: for every order of the pivot, total_products equals      *)
(* item_quantity_count_0 + _5 + _20 + _other, for every item table.         *)
(***************************************************************************)
FourBandSum(id) ==
  PivotValue(id, "item_quantity_count_0") + PivotValue(id, "item_quantity_count_5")
    + PivotValue(id, "item_quantity_count_20")
    + PivotValue(id, "item_quantity_count_other")

C7_AsStated ==
  PivotBuilt =>
    \A id \in df_pivot.index : df_pivot.cell[id]["total_products"] = FourBandSum(id)

(***************************************************************************)
(* C7, amended.  For every order of the pivot, total_products equals the    *)
(* sum of item_quantity_count over all item rows of the order, whatever     *)
(* their label; it equals item_quantity_count_0 + _5 + _20 + _other when    *)
(* every label of the item table is one of the four recognised labels.      *)
(***************************************************************************)
RECURSIVE QuantityOfOrder(_, _)
QuantityOfOrder(items, id) ==
  IF items = << >> THEN 0
  ELSE QuantityOfOrder(SubSeq(items, 1, Len(items) - 1), id)
         + (IF items[Len(items)].gp_order_id = id
            THEN items[Len(items)].item_quantity_count ELSE 0)

C7_TotalIsSumOfAllBands ==
  PivotBuilt =>
    \A id \in df_pivot.index :
      /\ df_pivot.cell[id]["total_products"] = QuantityOfOrder(df_items, id)
      /\ (\A k \in 1..Len(df_items) : df_items[k].vat_band \in KnownBands) =>
           df_pivot.cell[id]["total_products"] = FourBandSum(id)

\* An order with an item row under an unrecognised label and one under a
\* recognised label.
C7_Witness ==
  /\ PivotBuilt
  /\ "A" \in df_pivot.index
  /\ \E k \in 1..Len(df_items) :
       df_items[k].gp_order_id = "A" /\ df_items[k].vat_band \notin KnownBands
  /\ \E k \in 1..Len(df_items) :
       df_items[k].gp_order_id = "A" /\ df_items[k].vat_band \in KnownBands
  /\ df_pivot.cell["A"]["total_products"] = 6

(***************************************************************************)
(* C4.  As stated: the six provider subsets are pairwise disjoint, whatever *)
(* the (vendor_group, payment_system, order_vendor) values of a row: every  *)
(* row of the final table is in the subset of at most one provider.         *)
(***************************************************************************)
SubsetsBuilt ==
  pc \in { "export", "done" } \/ (pc = "failed" /\ failed_at = "export")

ProvidersOf(r) == { p \in Range(ProviderOrder) : r \in Range(subsets[p]) }

C4_AsStated ==
  SubsetsBuilt =>
    \A k \in 1..Len(df_final) : Cardinality(ProvidersOf(df_final[k])) <= 1

(***************************************************************************)
(* C4, amended.  The Braintree and PayPal subsets are disjoint and the      *)
(* Uber, Deliveroo, Just Eat and Amazon subsets are pairwise disjoint; a    *)
(* row is in two subsets exactly when its vendor_group is "dtc" and its     *)
(* order_vendor is uber, deliveroo, just eat, justeat or amazon uk (in any  *)
(* letter case), and no row is in more than two.                            *)
(***************************************************************************)
IsDtc(r) == r.vendor_group \in { "dtc", "DTC" }

IsMarketplace(r) ==
  r.order_vendor \in { "uber", "Uber", "deliveroo", "just eat", "Just Eat",
                       "justeat", "amazon uk" }

C4_DisjointWithinEachKey ==
  SubsetsBuilt =>
    \A k \in 1..Len(df_final) :
      LET P == ProvidersOf(df_final[k])
      IN /\ Cardinality(P \cap { "Braintree", "PayPal" }) <= 1
         /\ Cardinality(P \cap { "Uber", "Deliveroo", "Just Eat", "Amazon" }) <= 1
         /\ Cardinality(P) = 2 <=> (IsDtc(df_final[k]) /\ IsMarketplace(df_final[k]))

\* A row routed to PayPal alone, its fields in mixed case.
C4_Witness ==
  /\ SubsetsBuilt
  /\ \E k \in 1..Len(df_final) :
       /\ df_final[k].vendor_group = "DTC"
       /\ df_final[k].payment_system = "PayPal"
       /\ ProvidersOf(df_final[k]) = { "PayPal" }

(***************************************************************************)
(* C8.  End-to-end scenario: order rows {A, 1, dtc, braintree} and          *)
(* {A, 2, dtc, braintree}, one item row {A, "5% VAT Band", 3, 12.0, 11.4}.  *)
(* The transformation returns; the final row with tx_index 1 has            *)
(* item_quantity_count_5 = 3 and total_products = 3, the row with           *)
(* tx_index 2 has all item columns missing; both rows are in the Braintree  *)
(* subset.                                                                  *)
(***************************************************************************)
ScenarioInput ==
  /\ dwh_orders = TxRows("A", 2)
  /\ dwh_items = << ItemRow("A", "5% VAT Band") >>

C8_Scenario ==
  ScenarioInput =>
    /\ ~(pc = "failed" /\ failed_at = "transform")
    /\ TransformReturned =>
         /\ Len(df_final) = 2
         /\ df_final[1].braintree_tx_index = Num(1)
         /\ df_final[1].item["item_quantity_count_5"] = Num(3)
         /\ df_final[1].item["total_products"] = Num(3)
         /\ df_final[2].braintree_tx_index = Num(2)
         /\ AllMissing(df_final[2])
    /\ SubsetsBuilt => subsets["Braintree"] = df_final

(***************************************************************************)
(* C9.  In every run that obtained a connection, the connection is closed   *)
(* by the time the run ends, on success and on failure of any stage.        *)
(***************************************************************************)
C9_ConnectionClosedAtEnd ==
  (pc \in { "done", "failed" } /\ conn # "none") => conn = "closed"

(***************************************************************************)
(* C10.  A file is written or a provider skipped only after                 *)
(* transform_item_data has returned the whole final table (one row per      *)
(* order row) restricted to FINAL_DF_ORDER, and every row written is a row  *)
(* of that table; a run that failed before the export loop has written no   *)
(* file.                                                                    *)
(***************************************************************************)
C10_NoFileBeforeFinalTable ==
  /\ (files # << >> \/ skipped # {}) =>
       /\ TransformReturned
       /\ final_columns = FINAL_DF_ORDER
       /\ Len(df_final) = Len(df_orders)
       /\ \A k \in 1..Len(df_final) : DOMAIN df_final[k].item = Range(ItemLevelColumns)
       /\ \A f \in 1..Len(files) : Range(files[f].rows) \subseteq Range(df_final)
  /\ (pc = "failed" /\ failed_at # "export") => files = << >>

\* A run that failed after the final table was returned and before the export
\* loop, with no file written.
C10_Witness ==
  /\ pc = "failed"
  /\ failed_at = "subsets"
  /\ TransformReturned
  /\ files = << >>

(***************************************************************************)
(* C11.  When a stage fails the run is failed and stays so: the error that  *)
(* leaves main is of a kind that stage raises (nothing wraps or replaces    *)
(* it), the failed stage is the last step started and no step was started   *)
(* twice, and nothing a later stage produces exists.                        *)
(***************************************************************************)
RaisedBy(at) ==
  CASE at = "connect" -> { "Exception" }
    [] at = "order_query" -> { "FileNotFoundError", "DatabaseError" }
    [] at = "stage_validate" -> { "ValueError", "DatabaseError" }
    [] at = "stage_loop" -> { "DatabaseError" }
    [] at = "item_query" -> { "FileNotFoundError", "DatabaseError" }
    [] at = "transform" -> { "KeyError" }
    [] at = "subsets" -> { "ValueError" }
    [] at = "export" -> { "OSError" }
    [] OTHER -> {}

LastStepOf(at) ==
  CASE at = "connect" -> "connect"
    [] at = "order_query" -> "query_orders"
    [] at \in { "stage_validate", "stage_loop" } -> "staging"
    [] at = "item_query" -> "query_items"
    [] at = "transform" -> "merge"
    [] at \in { "subsets", "export" } -> "partition_and_export"
    [] OTHER -> "none"

NoRepeat(s) == \A a, b \in 1..Len(s) : s[a] = s[b] => a = b

C11_FailureStopsTheRun ==
  /\ (error # "none") <=> (pc = "failed")
  /\ (failed_at # "none") <=> (pc = "failed")
  /\ NoRepeat(stage_log)
  /\ pc = "failed" =>
       /\ error \in RaisedBy(failed_at)
       /\ stage_log # << >>
       /\ stage_log[Len(stage_log)] = LastStepOf(failed_at)
       /\ failed_at \in { "connect", "order_query" } =>
            (gp_order_ids = << >> /\ insert_calls = << >>)
       /\ failed_at \in { "connect", "order_query", "stage_validate", "stage_loop" } =>
            df_items = << >>
       /\ failed_at \notin { "subsets", "export" } =>
            (df_final = << >> /\ subsets = << >> /\ files = << >> /\ skipped = {})

\* The item-level query raised the driver's error after a completed staging.
C11_Witness ==
  /\ pc = "failed"
  /\ failed_at = "item_query"
  /\ error = "DatabaseError"
  /\ Len(temp_table.rows) = Len(gp_order_ids)
  /\ stage_log = << "connect", "query_orders", "staging", "query_items" >>

(***************************************************************************)
(* C12. Stated: a successful run passes through STAGING, QUERY_ORDERS,      *)
(* QUERY_ITEMS, TRANSFORM, MERGE, PARTITION_AND_EXPORT, DONE in that order, *)
(* each stage starting after the previous one completed.                    *)
(***************************************************************************)
IsPrefix(s, t) == Len(s) <= Len(t) /\ \A k \in 1..Len(s) : s[k] = t[k]

\* The stages the stated sequence names.
StatedStages == << "staging", "query_orders", "query_items", "transform",
                  "merge", "partition_and_export", "done" >>

InStatedStages(step) == step \in Range(StatedStages)

\* C12 as stated: the stages of a run that reached the end, in the order they
\* started, are STAGING, QUERY_ORDERS, QUERY_ITEMS, TRANSFORM, MERGE,
\* PARTITION_AND_EXPORT, DONE.
C12_AsStated ==
  pc = "done" => SelectSeq(stage_log, InStatedStages) = StatedStages

\* The order of main: the order-level query comes first, because the staging
\* uploads the identifiers it returned.
MainStages == << "connect", "query_orders", "staging", "query_items", "transform",
                "merge", "close", "partition_and_export", "done" >>

\* C12, amended: the steps of every run start in the order QUERY_ORDERS,
\* STAGING, QUERY_ITEMS, TRANSFORM, MERGE, PARTITION_AND_EXPORT, DONE (after
\* the connection is opened, and with its closing before the export), one
\* after the other; a successful run has passed through all of them, and
\* the identifiers staged are those the order-level query returned.
C12_StagesInOrderOfMain ==
  /\ IsPrefix(stage_log, MainStages)
  /\ pc = "done" => stage_log = MainStages
  /\ Len(stage_log) >= 3 => gp_order_ids = DropnaUnique(IdColumn(dwh_orders))

\* A run that reached the end and wrote a file.
C12_Witness ==
  /\ pc = "done"
  /\ files # << >>
  /\ stage_log = MainStages

(***************************************************************************)
(* C13. No two queries execute at the same time on the window's             *)
(* connection, whatever the clicks and the interleaving of the threads and  *)
(* the poll.                                                                *)
(***************************************************************************)
Reading == { t \in 1..Len(threads) : threads[t].kind = "query" /\ threads[t].state = "reading" }

\* C13: at most one thread is inside pd.read_sql on sf_conn at any time.
C13_OneQueryAtATime == Cardinality(Reading) <= 1

(***************************************************************************)
(* C14. Null and empty identifiers are dropped before the staging: no null  *)
(* and no empty string is inserted, and no identifier is inserted twice.    *)
(***************************************************************************)
RECURSIVE Concat(_)
Concat(calls) ==
  IF calls = << >> THEN << >>
  ELSE Concat(SubSeq(calls, 1, Len(calls) - 1)) \o calls[Len(calls)]

\* The identifiers passed to cur.executemany so far, in order.
Inserted == Concat(insert_calls)

\* C14: among the identifiers inserted into temp_order_ids there is no null,
\* no empty string, and none occurs twice.
C14_NoNullNoEmptyNoRepeat ==
  /\ NULL \notin Range(Inserted)
  /\ "" \notin Range(Inserted)
  /\ NoRepeat(Inserted)

(***************************************************************************)
(* C15. The staging table does not leak between runs on one connection:     *)
(* when the item-level query executes, the table holds exactly the          *)
(* identifiers this run staged and none left by an earlier run.             *)
(***************************************************************************)
\* C15: from the end of the insert loop on (the item-level query executes
\* then), the rows of temp_order_ids are the identifiers of this run, and
\* during the loop they are the chunks this run has inserted so far.
C15_NoLeftoverRows ==
  /\ StagingCompleted => temp_table.rows = gp_order_ids
  /\ pc = "stage_loop" => temp_table.rows = Inserted

\* The item-level query is about to execute in a session where an earlier run
\* had left rows in temp_order_ids.
C15_Witness ==
  /\ pc = "item_query"
  /\ temp_table.replaced = << "A", "Z" >>
  /\ temp_table.rows = gp_order_ids
  /\ "A" \notin Range(gp_order_ids)

(***************************************************************************)
(* C16. After each staging batch a progress report gives the cumulative     *)
(* count and its percentage of the total: after the k-th batch the count is *)
(* min(k*B, |S|); it strictly increases, never exceeds |S|, and the         *)
(* percentage after the last batch is 100.                                  *)
(***************************************************************************)
\* C16: there is one report per batch sent; the k-th reports
\* min(k * chunk_size, |S|), which is the number of identifiers in the first
\* k batches; the counts strictly increase and stay within |S|; every
\* percentage is within 0..100 and the one after the last batch is 100.0.
C16_ProgressReports ==
  /\ Len(progress) = Len(insert_calls)
  /\ \A k \in 1..Len(progress) :
       /\ progress[k].done = Min2(k * chunk_size, Len(gp_order_ids))
       /\ progress[k].done = TotalLen(SubSeq(insert_calls, 1, k))
       /\ progress[k].done <= Len(gp_order_ids)
       /\ k > 1 => progress[k - 1].done < progress[k].done
       /\ progress[k].pct \in 1..1000
  /\ StagingCompleted =>
       /\ progress # << >>
       /\ progress[Len(progress)].pct = 1000

\* Three identifiers staged in batches of two: 2 (66.7 %), then 3 (100.0 %).
C16_Witness ==
  /\ StagingCompleted
  /\ progress = << [ done |-> 2, pct |-> 667 ], [ done |-> 3, pct |-> 1000 ] >>

(***************************************************************************)
(* C17. Stated: the canonicalization maps "0% VAT Band" to "0",             *)
(* "5% VAT Band" to "5", "20% VAT Band" to "20" and                         *)
(* "Other/Unknown VAT Band" to "other"; every other label passes through    *)
(* unchanged.                                                               *)
(***************************************************************************)
\* The rows the item-level query returned, before transform_item_data.
QueriedItems == ItemsOfStaged(dwh_items, temp_table.rows)

\* transform_item_data has just ended: it returned its table, or raised at
\* line 187.  Nothing after it changes df_items or df_pivot.
AfterTransform == pc = "close" \/ (pc = "failed" /\ failed_at = "transform")

\* The mapping as stated.
StatedCode(label) ==
  CASE label = "0% VAT Band" -> "0"
    [] label = "5% VAT Band" -> "5"
    [] label = "20% VAT Band" -> "20"
    [] label = "Other/Unknown VAT Band" -> "other"
    [] OTHER -> label

\* C17 as stated: after the canonicalization every item row carries the
\* stated code of the label the query returned for it.
C17_AsStated ==
  AfterTransform =>
    LET queried == QueriedItems
    IN /\ Len(df_items) = Len(queried)
       /\ \A k \in 1..Len(df_items) :
            df_items[k].vat_band = StatedCode(queried[k].vat_band)

\* C17, amended: the fourth recognized label is "Other / Unknown VAT Band"
\* (with the spaces around the slash); the three percentage labels map as
\* stated, every other label, "Other/Unknown VAT Band" among them, passes
\* through unchanged, and nothing but the label of a row changes.
C17_CodesOfTheFourLabels ==
  AfterTransform =>
    LET queried == QueriedItems
    IN /\ Len(df_items) = Len(queried)
       /\ \A k \in 1..Len(df_items) :
            LET label == queried[k].vat_band
                code == df_items[k].vat_band
            IN /\ label = "0% VAT Band" => code = "0"
               /\ label = "5% VAT Band" => code = "5"
               /\ label = "20% VAT Band" => code = "20"
               /\ label = "Other / Unknown VAT Band" => code = "other"
               /\ label \notin { "0% VAT Band", "5% VAT Band", "20% VAT Band",
                                 "Other / Unknown VAT Band" } => code = label
               /\ df_items[k] = [ queried[k] EXCEPT !.vat_band = code ]

\* A canonicalized item table with a row of the fourth label and a row of a
\* label that passed through.
C17_Witness ==
  /\ AfterTransform
  /\ \E k, j \in 1..Len(df_items) :
       /\ Len(df_items) = Len(QueriedItems)
       /\ QueriedItems[k].vat_band = "Other / Unknown VAT Band"
       /\ df_items[k].vat_band = "other"
       /\ QueriedItems[j].vat_band = "Other/Unknown VAT Band"
       /\ df_items[j].vat_band = "Other/Unknown VAT Band"

(***************************************************************************)
(* C18. For every (order_id, band, metric), the pivoted value               *)
(* {metric}_{band} of the order is the sum of the metric over the item rows *)
(* of that order and that canonicalized band.                               *)
(***************************************************************************)
\* The item rows, among those the query returned, of an order in a band.
GroupOf(queried, id, band) ==
  { k \in 1..Len(queried) :
      /\ queried[k].gp_order_id = id
      /\ ReplaceVatBand(queried[k].vat_band) = band }

GroupSum(queried, id, band, metric) ==
  LET group == GroupOf(queried, id, band)
  IN SumOver(group, [ k \in group |-> queried[k][metric] ])

\* C18: every cell {metric}_{band} of the pivot holds the sum of the metric
\* over the item rows of its order and band (0 when the order has no row in
\* the band), and every order, band and metric with at least one item row
\* has such a cell.
C18_PivotValueIsGroupSum ==
  AfterTransform =>
    LET queried == QueriedItems
    IN /\ \A b \in KnownBands \cup Labels, m \in Metrics :
            ColName(m, b) \in df_pivot.columns =>
              \A id \in df_pivot.index :
                df_pivot.cell[id][ColName(m, b)] = GroupSum(queried, id, b, m)
       /\ \A k \in 1..Len(queried), m \in Metrics :
            /\ queried[k].gp_order_id \in df_pivot.index
            /\ ColName(m, ReplaceVatBand(queried[k].vat_band)) \in df_pivot.columns

\* An order with two item rows in band 5 and none in band 20, which another
\* order has: its cells hold 6, 240 and 228 in band 5 and 0 in band 20.
C18_Witness ==
  /\ AfterTransform
  /\ \E id \in df_pivot.index :
       /\ Cardinality(GroupOf(QueriedItems, id, "5")) = 2
       /\ GroupOf(QueriedItems, id, "20") = {}
       /\ { "item_quantity_count_5", "item_quantity_count_20" } \subseteq df_pivot.columns
       /\ df_pivot.cell[id]["item_quantity_count_5"] = 6
       /\ df_pivot.cell[id]["total_price_inc_vat_5"] = 240
       /\ df_pivot.cell[id]["total_price_exc_vat_5"] = 228
       /\ df_pivot.cell[id]["item_quantity_count_20"] = 0

(***************************************************************************)
(* C19. An order row whose order_id has no item rows gets every             *)
(* item-derived column as missing, not 0, in the merged table, whatever its *)
(* transaction_index.                                                       *)
(***************************************************************************)
\* No row of the item table belongs to the order.
Itemless(id) == \A k \in 1..Len(df_items) : df_items[k].gp_order_id # id

\* C19: for every order row without item rows, whatever its
\* transaction_index, every item-derived column is missing right after the
\* left join, and in the returned table every item-level column of the
\* canonical list, total_products included, is missing.
C19_ItemlessRowsAreMissing ==
  /\ AfterTransform =>
       \A k \in 1..Len(df_orders) :
         Itemless(df_orders[k].gp_order_id) =>
           /\ DOMAIN MergeRow(df_orders[k], df_pivot).item = df_pivot.columns
           /\ "total_products" \in df_pivot.columns
           /\ AllMissing(MergeRow(df_orders[k], df_pivot))
  /\ TransformReturned =>
       \A k \in 1..Len(df_final) :
         Itemless(df_final[k].gp_order_id) =>
           /\ DOMAIN df_final[k].item = Range(ItemLevelColumns)
           /\ AllMissing(df_final[k])

\* A returned table with a first-transaction row of an order without items,
\* all its item columns missing, next to a row that carries item values.
C19_Witness ==
  /\ TransformReturned
  /\ \E k, j \in 1..Len(df_final) :
       /\ Itemless(df_final[k].gp_order_id)
       /\ df_final[k].braintree_tx_index = Num(1)
       /\ df_final[k].item["total_products"] = NaN
       /\ df_final[k].item["item_quantity_count_5"] = NaN
       /\ AllMissing(df_final[k])
       /\ NoneMissing(df_final[j])

(***************************************************************************)
(* C20. The rows of the returned table are sorted ascending by (order_id,   *)
(* transaction_index): of two consecutive rows the earlier has the smaller  *)
(* order_id, or the same order_id and a transaction_index that is not       *)
(* greater.                                                                 *)
(***************************************************************************)
\* C20: of any two consecutive rows of the returned table, the earlier has
\* the smaller gp_order_id, or the same one and a braintree_tx_index that is
\* not greater; a missing identifier or index counts as greater than every
\* present one.
C20_SortedByIdThenTx ==
  TransformReturned =>
    \A k \in 1..(Len(df_final) - 1) :
      LET a == df_final[k]
          b == df_final[k + 1]
      IN \/ IdRank(a.gp_order_id) < IdRank(b.gp_order_id)
         \/ /\ a.gp_order_id = b.gp_order_id
            /\ \/ b.braintree_tx_index = NaN
               \/ /\ a.braintree_tx_index # NaN
                  /\ a.braintree_tx_index[1] <= b.braintree_tx_index[1]

\* The order-level query returned the rows of two orders in descending
\* order; the returned table has them in ascending order.
C20_Witness ==
  /\ TransformReturned
  /\ Len(df_orders) >= 3
  /\ Len(df_final) = Len(df_orders)
  /\ df_orders[1].gp_order_id = "B"
  /\ df_orders[Len(df_orders)].gp_order_id = "A"
  /\ df_orders[Len(df_orders)].braintree_tx_index = Num(1)
  /\ df_final[1].gp_order_id = "A"
  /\ df_final[1].braintree_tx_index = Num(1)
  /\ df_final[Len(df_final)].gp_order_id = "B"

(***************************************************************************)
(* C21. Stated: the final table has exactly the columns of FINAL_DF_ORDER,  *)
(* in that order (no other-band column is exported); if the merged table    *)
(* lacks a column of the list, the run fails with SchemaMismatchError and   *)
(* returns no table.                                                        *)
(***************************************************************************)
\* The item-derived columns of the canonical list, and the columns of the
\* other band.
CanonicalItemColumns == Range(ItemLevelColumns)

OtherBandColumns == { ColName(m, "other") : m \in Metrics }

\* The columns of the returned rows are those of the canonical list.
FinalColumnsAreCanonical ==
  /\ final_columns = FINAL_DF_ORDER
  /\ \A k \in 1..Len(df_final) :
       /\ DOMAIN df_final[k].item = CanonicalItemColumns
       /\ DOMAIN df_final[k].item \cap OtherBandColumns = {}

Satisfies(provider, r) ==
  CASE provider = "Braintree" ->
         r.vendor_group \in { "dtc", "DTC" } /\ r.payment_system \notin { "paypal", "PayPal" }
    [] provider = "PayPal" ->
         r.vendor_group \in { "dtc", "DTC" } /\ r.payment_system \in { "paypal", "PayPal" }
    [] provider = "Uber" -> r.order_vendor \in { "uber", "Uber" }
    [] provider = "Deliveroo" -> r.order_vendor = "deliveroo"
    [] provider = "Just Eat" -> r.order_vendor \in { "just eat", "Just Eat", "justeat" }
    [] provider = "Amazon" -> r.order_vendor = "amazon uk"

\* The rows of the final table that satisfy the predicate of a provider.
SatisfyingRows(provider) ==
  LET Sat(r) == Satisfies(provider, r) IN SelectSeq(df_final, Sat)

FilesOf(provider) == { k \in 1..Len(files) : files[k].provider = provider }

\* C22: every file written holds the rows of the final table that satisfy
\* its provider's predicate, those and no others, in the table's order; at
\* the end of a run every provider with such rows has its file, so a row
\* that satisfies no predicate is in no file.
C22_RowsRoutedByPredicate ==
  /\ \A k \in 1..Len(files) :
       /\ files[k].rows = SatisfyingRows(files[k].provider)
       /\ files[k].rows # << >>
  /\ pc = "done" =>
       \A p \in Range(ProviderOrder) :
         /\ SatisfyingRows(p) # << >> => FilesOf(p) # {}
         /\ \A k \in 1..Len(df_final) :
              (\E f \in FilesOf(p) : df_final[k] \in Range(files[f].rows))
                <=> Satisfies(p, df_final[k])

\* A completed run whose only file is Uber's, holding a row whose vendor is
\* spelled "Uber".
C22_Witness ==
  /\ pc = "done"
  /\ Len(files) = 1
  /\ files[1].provider = "Uber"
  /\ \E k \in 1..Len(df_final) :
       /\ df_final[k].order_vendor = "Uber"
       /\ df_final[k] \in Range(files[1].rows)

(***************************************************************************)
(* C23. In the export loop exactly one table is written for every provider  *)
(* whose partition is non-empty; for a provider whose partition is empty    *)
(* nothing is written, a skip is reported, no error is raised, and the loop *)
(* continues with the remaining providers.                                  *)
(***************************************************************************)
\* The providers whose iteration of the loop has ended.
Exported == { ProviderOrder[k] : k \in 1..(export_idx - 1) }

\* C23: of the providers the loop has passed, each with a non-empty subset
\* has exactly one file and no skip report, each with an empty subset has a
\* skip report and no file; nothing is written or reported for a provider
\* the loop has not reached; an error in the loop is raised at a non-empty
\* subset only; and a loop that meets no error passes all six providers.
C23_OneFilePerNonEmptySubset ==
  SubsetsBuilt =>
    /\ \A p \in Exported :
         IF subsets[p] = << >>
         THEN p \in skipped /\ FilesOf(p) = {}
         ELSE p \notin skipped /\ Cardinality(FilesOf(p)) = 1
    /\ \A p \in Range(ProviderOrder) \ Exported : p \notin skipped /\ FilesOf(p) = {}
    /\ pc = "failed" => subsets[ProviderOrder[export_idx]] # << >>
    /\ pc = "done" => Exported = Range(ProviderOrder)

\* A completed loop that skipped Braintree and four more providers and wrote
\* the table of Just Eat, which comes after Braintree.
C23_Witness ==
  /\ pc = "done"
  /\ skipped = Range(ProviderOrder) \ { "Just Eat" }
  /\ Len(files) = 1
  /\ files[1].provider = "Just Eat"
  /\ files[1].rows = subsets["Just Eat"]

(***************************************************************************)
(* C24. The item-level query is executed only after the last staging batch  *)
(* has been inserted and refers to the staged identifiers: every item row   *)
(* it returns has an order_id among the identifiers this run staged, which  *)
(* are exactly the non-null order_ids this run's order-level query          *)
(* returned.                                                                *)
(***************************************************************************)
\* The item-level query has been started.
ItemQueryStarted == \E k \in 1..Len(stage_log) : stage_log[k] = "query_items"

\* The non-null identifiers of the order-level result.
NonNullOrderIds == { df_orders[k].gp_order_id : k \in 1..Len(df_orders) } \ { NULL }

NoOrderLevelColumnIsItemCol == \A c \in Range(OrderLevelColumns) : ~IsItemCol(c)

OrderFields(r) ==
  << r.gp_order_id, r.braintree_tx_index, r.vendor_group, r.payment_system,
     r.order_vendor >>

IndexFrom2(r) == r.braintree_tx_index # NaN /\ r.braintree_tx_index[1] >= 2

\* C25: no order-level column is among the columns the step clears; for
\* every order row, the step leaves the order-level values of the joined
\* row as they are, and all of the joined row when its index is 1 or
\* missing; and in the returned table a row whose index is 1 or missing
\* carries the item values the join gave it.
C25_OnlyLaterTransactionsChange ==
  /\ AfterTransform =>
       /\ NoOrderLevelColumnIsItemCol
       /\ \A c \in df_pivot.columns : IsItemCol(c)
       /\ \A k \in 1..Len(df_orders) :
            LET joined == MergeRow(df_orders[k], df_pivot)
                cleared == ClearDuplicated(joined)
            IN /\ OrderFields(cleared) = OrderFields(df_orders[k])
               /\ DOMAIN cleared.item = DOMAIN joined.item
               /\ ~IndexFrom2(joined) => cleared = joined
  /\ pc = "close" =>
       \A k \in 1..Len(df_final) :
         ~IndexFrom2(df_final[k]) =>
           \A c \in Range(ItemLevelColumns) :
             df_final[k].item[c] = MergeRow(df_final[k], df_pivot).item[c]

\* A returned row without a transaction index that carries its order's item
\* values and its order-level values.
C25_Witness ==
  /\ TransformReturned
  /\ \E k \in 1..Len(df_final) :
       /\ df_final[k].braintree_tx_index = NaN
       /\ df_final[k].order_vendor = "Uber"
       /\ df_final[k].item["total_products"] = Num(9)
       /\ NoneMissing(df_final[k])

(***************************************************************************)
(* C26. transform_item_data neither drops nor duplicates order rows: the    *)
(* returned table has exactly one row for each input order row (the same    *)
(* multiset of (order_id, transaction_index) pairs), for every item table.  *)
(***************************************************************************)
\* The number of rows of a table with a given identifier and index.
CountOf(df, id, tx) ==
  Cardinality({ k \in 1..Len(df) : df[k].gp_order_id = id /\ df[k].braintree_tx_index = tx })

\* C26: the returned table has as many rows as the order table, every
\* (gp_order_id, braintree_tx_index) pair occurs in both the same number of
\* times, and the pivot has one row per identifier, none of them null.
C26_SameOrderRows ==
  TransformReturned =>
    /\ Len(df_final) = Len(df_orders)
    /\ \A k \in 1..Len(df_orders) :
         CountOf(df_final, df_orders[k].gp_order_id, df_orders[k].braintree_tx_index)
           = CountOf(df_orders, df_orders[k].gp_order_id, df_orders[k].braintree_tx_index)
    /\ \A k \in 1..Len(df_final) :
         CountOf(df_orders, df_final[k].gp_order_id, df_final[k].braintree_tx_index) > 0
    /\ NULL \notin df_pivot.index
    /\ DOMAIN df_pivot.cell = df_pivot.index

\* A returned table for an order table that holds the same identifier and
\* index twice and an identifier without item rows.
C26_Witness ==
  /\ TransformReturned
  /\ Len(df_final) = 3
  /\ CountOf(df_orders, "A", Num(1)) = 2
  /\ CountOf(df_final, "A", Num(1)) = 2
  /\ CountOf(df_final, "", Num(1)) = 1

(***************************************************************************)
(* C27. The batches sent by the staging loop are consecutive slices of the  *)
(* deduplicated identifier list: concatenated in the order sent they equal  *)
(* the list, so every identifier is inserted exactly once and none is       *)
(* skipped, also when |S| is a multiple of the batch size or smaller than   *)
(* it.                                                                      *)
(***************************************************************************)
\* C27: the batches sent so far, concatenated, are the first identifiers of
\* the list up to the loop's position; every batch is non-empty and within
\* chunk_size, and every batch but the last one sent is full; when the loop
\* has ended the concatenation is the whole list.
C27_BatchesAreConsecutiveSlices ==
  /\ Len(Inserted) <= Len(gp_order_ids)
  /\ Inserted = SubSeq(gp_order_ids, 1, Len(Inserted))
  /\ \A k \in 1..Len(insert_calls) :
       /\ Len(insert_calls[k]) \in 1..chunk_size
       /\ k < Len(insert_calls) => Len(insert_calls[k]) = chunk_size
       /\ insert_calls[k] = SubSeq(gp_order_ids, (k - 1) * chunk_size + 1,
                                   (k - 1) * chunk_size + Len(insert_calls[k]))
  /\ pc = "stage_loop" => Len(Inserted) = i
  /\ StagingCompleted => Inserted = gp_order_ids

\* Two identifiers staged in one batch of two: the list is as long as the
\* batch size.
C27_Witness ==
  /\ StagingCompleted
  /\ chunk_size = 2
  /\ Len(gp_order_ids) = 2
  /\ insert_calls = << gp_order_ids >>

(***************************************************************************)
(* C28. Whenever the Export button is enabled, report_df holds the result   *)
(* of a successful query (it is not None), under every interleaving of      *)
(* Run-query clicks, Export clicks, thread completions and queue polls.     *)
(***************************************************************************)
\* C28: an enabled Export button implies that report_df is not None.
C28_ExportEnabledOnlyWithResult ==
  export_button = "normal" => report_df # "None"

(***************************************************************************)
(* C29. Every background thread started by the window (threaded_run_query,  *)
(* _export_local_csv, _export_api_csv) puts exactly one message on the      *)
(* thread queue before it ends, whether the operation succeeds or raises.   *)
(***************************************************************************)
Ended == { t \in 1..Len(threads) : threads[t].state = "ended" }

\* C29: a thread that has ended has put one message, a thread that has not
\* ended has put none; the queue never holds more messages than threads have
\* ended, and each message is a success or a failure of a query or an export.
C29_OneMessagePerThread ==
  /\ \A t \in 1..Len(threads) :
       threads[t].puts = IF threads[t].state = "ended" THEN 1 ELSE 0
  /\ Len(thread_queue) <= Cardinality(Ended)
  /\ \A m \in 1..Len(thread_queue) :
       thread_queue[m].action \in { "query_success", "query_failure",
                                    "export_success", "export_failure" }

\* An upload thread has ended in a window without a Drive service, and its
\* failure message is waiting in the queue.
C29_Witness ==
  /\ ~gdrive_service
  /\ \E t \in Ended : threads[t].kind = "export_api" /\ threads[t].puts = 1
  /\ \E m \in 1..Len(thread_queue) : thread_queue[m].action = "export_failure"

(***************************************************************************)
(* C30. Whenever run_query has disabled the Run button, the button is       *)
(* eventually enabled again, provided the query thread terminates and the   *)
(* queue poll keeps running; the window never stays locked with Run         *)
(* disabled and no thread in flight.                                        *)
(***************************************************************************)
\* run_query has disabled the Run button: the button of a window with a
\* connection starts enabled (line 90), and run_query is the only code that
\* disables it.
RunDisabledByQuery == sf_conn /\ run_button = "disabled"

\* A query thread has not ended, or its message waits in the queue.
QueryInFlight ==
  \/ \E t \in 1..Len(threads) :
       threads[t].kind = "query" /\ threads[t].state # "ended"
  \/ \E m \in 1..Len(thread_queue) :
       thread_queue[m].action \in { "query_success", "query_failure" }

\* C30: while run_query has the Run button disabled a query thread is running
\* or its message is waiting to be polled, and the button is enabled again
\* later.
C30_RunButtonEnabledAgain ==
  /\ [](RunDisabledByQuery => QueryInFlight)
  /\ (RunDisabledByQuery ~> run_button = "normal")

\* A query has failed, its message has been polled, and the Run button is
\* enabled again with nothing in flight.
C30_Witness ==
  /\ sf_conn
  /\ run_button = "normal"
  /\ dialog = "SQL Error"
  /\ thread_queue = << >>
  /\ threads # << >>
  /\ \A t \in 1..Len(threads) :
       threads[t].kind = "query" /\ threads[t].state = "ended"

====
